---- MODULE Spec2Model ----
(***************************************************************************)
(* Model of lnd_monitor.py: the monitoring loop (status-transition         *)
(* detector), the request layer make_lnd_request with its circuit-refresh  *)
(* retry, and the authorised Telegram command handlers.                    *)
(*                                                                         *)
(* Time is in seconds and measured from the present: datetime.now() is     *)
(* always 0 and a stored datetime is the (non-positive) offset of that     *)
(* instant from now.  The program only ever subtracts datetimes, so this   *)
(* keeps every difference it computes.  A sleep or a timed-out request of  *)
(* d seconds moves every stored datetime d seconds into the past.          *)
(*                                                                         *)
(* The two asyncio tasks (the monitoring loop and the command dispatcher)  *)
(* interleave at their await points; everything between two awaits of one  *)
(* task is one atomic step.  While one task is suspended in an await the   *)
(* other may run: waited[p] is how long the pending await of task p has    *)
(* lasted so far, and an await that lasts d seconds in all completes when  *)
(* waited[p] has reached d.  Time passes only in the step that completes   *)
(* an await, and never beyond the end of the other task's await.           *)
(***************************************************************************)
EXTENDS Integers, Sequences, FiniteSets, TLC

\* ------------------------------------------------------------ bounds
\* A stored datetime older than MaxAge seconds is kept as MaxAge seconds old.
MaxAge == 420
\* The node fails at most MaxFailures tick polls in a row.
MaxFailures == 4
\* updates sent to the bot before it polls
MaxBacklog == 1
\* forwarding events in one fee summary
MaxEvents == 3

\* ------------------------------------------------- program constants
CHECK_INTERVAL == 120
TIMEOUT == 60
MAX_RETRIES == 3
CIRCUIT_REFRESH_INTERVAL == 300
\* asyncio.sleep(60) of the loop's except handler
ErrorBackoff == 60
\* asyncio.sleep(5) before the extra re-check
SettleDelay == 5
\* asyncio.sleep(3) of refresh_tor_circuit after a signal was sent
RefreshWait == 3
\* asyncio.sleep(2) after the refresh that follows a connection error
ConnPause == 2

\* TELEGRAM_CHAT_ID, the environment string, as its characters
TELEGRAM_CHAT_ID == <<"4", "2">>

\* the chat the string TELEGRAM_CHAT_ID names
OperatorChat == 42

\* chat ids of inbound updates (update.effective_chat.id, an integer)
ChatIds == {OperatorChat, 4, 0 - OperatorChat}

Procs == {"mon", "cmd"}

VARIABLES
    last_status,            \* "None" | "True" | "False"
    consecutive_failures,
    last_successful_check,
    offline_alert_sent,
    last_circuit_refresh,
    monPc,                  \* position of monitoring_loop
    current_time,           \* local of monitoring_loop
    req,                    \* the make_lnd_request call of each task
    cmdPc,                  \* position of the command dispatcher
    cmd,                    \* the update being handled and its calls so far
    lastCmd,                \* outcome of the last finished command invocation
    app,                    \* the Application: its updater and its shutdown
    fmt,                    \* a call of a formatting function of the reports
    waited,                 \* seconds each task has spent in its pending await
    hist                    \* observation of polls and notifications

vars == <<last_status, consecutive_failures, last_successful_check,
          offline_alert_sent, last_circuit_refresh, monPc, current_time,
          req, cmdPc, cmd, lastCmd, app, fmt, waited, hist>>

statusVars == <<last_status, consecutive_failures, offline_alert_sent>>
times == <<last_circuit_refresh, last_successful_check, current_time>>
cmdVars == <<cmdPc, cmd, lastCmd, app, fmt>>

\* ------------------------------------------------------------ helpers

\* datetime.now()
now == 0

\* the datetime t, seen d seconds later
Shift(t, d) == IF t - d < 0 - MaxAge THEN 0 - MaxAge ELSE t - d

\* timedelta.seconds: the seconds component, the days dropped
Seconds(d) == d % 86400

\* The local current_time is live from its assignment at the top of the
\* loop body to the end of that iteration; outside it is kept at now.
InTick == monPc \in {"periodic", "poll", "second_refresh", "settle", "recheck"}

ShiftLocal(t, d) == IF InTick THEN Shift(t, d) ELSE t

\* d seconds pass: every stored datetime is d seconds older
Elapse(d) ==
    /\ last_circuit_refresh' = Shift(last_circuit_refresh, d)
    /\ last_successful_check' = Shift(last_successful_check, d)
    /\ current_time' = ShiftLocal(current_time, d)

Digits == <<"0", "1", "2", "3", "4", "5", "6", "7", "8", "9">>

RECURSIVE NatToStr(_)
NatToStr(n) ==
    IF n < 10 THEN <<Digits[n + 1]>>
    ELSE NatToStr(n \div 10) \o <<Digits[(n % 10) + 1]>>

\* str(chat_id)
IntToStr(n) == IF n < 0 THEN <<"-">> \o NatToStr(0 - n) ELSE NatToStr(n)

\* How long "await refresh_tor_circuit()" suspends its caller.  It sleeps
\* 3 s as soon as one method returns 0, and the second method, echo, does;
\* it would return at once (0) only if no method could be run at all.
RefreshDelays == {RefreshWait}

IdleReq == [stage |-> "idle", retry |-> 0, ok |-> FALSE,
            payload |-> "none", cause |-> "none", refreshes |-> 0,
            attempts |-> 0]

NewReq == [IdleReq EXCEPT !.stage = "attempt"]

ReqDone(p) == req[p].stage = "done"

\* return (ok, payload) from make_lnd_request
ReturnFrom(r, ok, payload, cause) ==
    [r EXCEPT !.stage = "done", !.ok = ok, !.payload = payload,
              !.cause = cause, !.attempts = @ + 1]

\* How long the await task p is suspended in lasts at most, in seconds:
\* a request attempt ends by TIMEOUT at the latest, a sleep lasts its
\* argument; -1 where p is not suspended in a timed await.
Pending(p) ==
    IF req[p].stage = "attempt" THEN TIMEOUT
    ELSE IF req[p].stage \in {"refresh_timeout", "refresh_conn"}
    THEN RefreshWait
    ELSE IF req[p].stage = "pause" THEN ConnPause
    ELSE IF p # "mon" \/ req[p].stage # "idle" THEN 0 - 1
    ELSE IF monPc = "sleep" THEN CHECK_INTERVAL
    ELSE IF monPc \in {"periodic", "second_refresh"} THEN RefreshWait
    ELSE IF monPc = "settle" THEN SettleDelay
    ELSE IF monPc = "backoff" THEN ErrorBackoff
    ELSE 0 - 1

\* the seconds still to pass until the await of p, d seconds long, is over
Remaining(p, d) == d - waited[p]

\* d more seconds can pass before the pending await of another task is over
MayElapse(p, d) ==
    \A q \in Procs \ {p} : Pending(q) >= 0 => waited[q] + d <= Pending(q)

\* task p is resumed d seconds after the step before: its await is over,
\* the await of the other task has lasted d seconds more
Resumed(p, d) ==
    /\ MayElapse(p, d)
    /\ waited' = [q \in Procs |->
                    IF q = p \/ Pending(q) < 0 THEN 0 ELSE waited[q] + d]

\* ------------------------------------------------ make_lnd_request
\* One call of make_lnd_request(endpoint, method, data) by task p, from its
\* first attempt (retry_count = 0) to its return.  An attempt ends with one
\* of: status 200 and a JSON body, another status, a timeout, an exception
\* whose text holds "connection", any other exception.

\* mutant: the recursive call passes retry_count on unchanged
Retry_SameCount(r, stage) ==
    [r EXCEPT !.stage = stage, !.attempts = @ + 1, !.refreshes = @ + 1]

\* the recursive call make_lnd_request(..., retry_count + 1)
Retry(r, stage) ==
    [r EXCEPT !.stage = stage, !.retry = @ + 1, !.attempts = @ + 1,
              !.refreshes = @ + 1]

\* mutant: ">=" for ">", as in the periodic refresh of the loop
TimeoutRefreshDue_AtLeast(r, refreshed) ==
    r.retry = 0 /\ Seconds(now - refreshed) >= CIRCUIT_REFRESH_INTERVAL

\* the condition of the refresh after a timeout; refreshed is
\* last_circuit_refresh when the timeout is handled
TimeoutRefreshDue(r, refreshed) ==
    r.retry = 0 /\ Seconds(now - refreshed) > CIRCUIT_REFRESH_INTERVAL

\* mutant: the refresh after a connection error waits for the interval too
ConnRefreshDue_Timed(r) ==
    r.retry = 0 /\ Seconds(now - last_circuit_refresh) > CIRCUIT_REFRESH_INTERVAL

\* the condition of the refresh after another exception
ConnRefreshDue(r) == r.retry = 0

\* the node fails at most MaxFailures tick polls in a row
MayFail(p) == p = "mon" => consecutive_failures < MaxFailures

\* response.status == 200: return True, await response.json()
ReqOk(p, payload) ==
    /\ req[p].stage = "attempt"
    /\ req' = [req EXCEPT ![p] = ReturnFrom(@, TRUE, payload, "ok")]
    /\ Resumed(p, 0)
    /\ UNCHANGED times

\* any other status, 401 included: return False, None
ReqStatus(p, code) ==
    /\ req[p].stage = "attempt"
    /\ MayFail(p)
    /\ req' = [req EXCEPT ![p] =
                 ReturnFrom(@, FALSE, "none",
                            IF code = 401 THEN "401" ELSE "status")]
    /\ Resumed(p, 0)
    /\ UNCHANGED times

\* asyncio.TimeoutError / ServerTimeoutError after TIMEOUT seconds
ReqTimeout(p) ==
    /\ req[p].stage = "attempt"
    /\ MayFail(p)
    /\ LET d == Remaining(p, TIMEOUT) IN
         /\ Resumed(p, d)
         /\ last_successful_check' = Shift(last_successful_check, d)
         /\ current_time' = ShiftLocal(current_time, d)
         /\ IF TimeoutRefreshDue(req[p], Shift(last_circuit_refresh, d))
            THEN \/ \* await refresh_tor_circuit(), which sleeps
                    /\ RefreshWait \in RefreshDelays
                    /\ req' = [req EXCEPT ![p].stage = "refresh_timeout"]
                    /\ last_circuit_refresh' = Shift(last_circuit_refresh, d)
                 \/ \* refresh_tor_circuit returns at once; the stamp; the retry
                    /\ 0 \in RefreshDelays
                    /\ last_circuit_refresh' = now
                    /\ req' = [req EXCEPT ![p] = Retry(@, "attempt")]
            ELSE /\ req' = [req EXCEPT ![p] =
                              ReturnFrom(@, FALSE, "none", "timeout")]
                 /\ last_circuit_refresh' = Shift(last_circuit_refresh, d)

\* an exception whose text holds "connection"
ReqConnError(p) ==
    /\ req[p].stage = "attempt"
    /\ MayFail(p)
    /\ IF ConnRefreshDue(req[p])
       THEN \/ /\ RefreshWait \in RefreshDelays
               /\ req' = [req EXCEPT ![p].stage = "refresh_conn"]
               /\ UNCHANGED last_circuit_refresh
            \/ /\ 0 \in RefreshDelays
               /\ last_circuit_refresh' = now
               /\ req' = [req EXCEPT ![p] = Retry(@, "pause")]
       ELSE /\ req' = [req EXCEPT ![p] =
                         ReturnFrom(@, FALSE, "none", "conn")]
            /\ UNCHANGED last_circuit_refresh
    /\ Resumed(p, 0)
    /\ UNCHANGED <<last_successful_check, current_time>>

\* any other exception (a body that is no JSON, a TLS or proxy error, ...)
ReqOtherError(p) ==
    /\ req[p].stage = "attempt"
    /\ MayFail(p)
    /\ req' = [req EXCEPT ![p] = ReturnFrom(@, FALSE, "none", "error")]
    /\ Resumed(p, 0)
    /\ UNCHANGED times

\* refresh_tor_circuit returns after its sleep; last_circuit_refresh is
\* stamped with datetime.now() and the request is tried once more
ReqRefreshDone(p) ==
    /\ req[p].stage \in {"refresh_timeout", "refresh_conn"}
    /\ Resumed(p, Remaining(p, RefreshWait))
    /\ last_successful_check' =
          Shift(last_successful_check, Remaining(p, RefreshWait))
    /\ current_time' = ShiftLocal(current_time, Remaining(p, RefreshWait))
    /\ last_circuit_refresh' = now
    /\ req' = [req EXCEPT ![p] =
                 Retry(@, IF @.stage = "refresh_conn" THEN "pause"
                          ELSE "attempt")]

\* await asyncio.sleep(2) before the retry that follows a connection error
ReqPause(p) ==
    /\ req[p].stage = "pause"
    /\ Resumed(p, Remaining(p, ConnPause))
    /\ Elapse(Remaining(p, ConnPause))
    /\ req' = [req EXCEPT ![p].stage = "attempt"]

\* ------------------------------------------------ observation
\* hist records what an observer of the monitor sees: each poll the
\* monitor handled (a tick poll or the extra re-check), its outcome, and
\* the notifications handed to send_notification while handling it, with
\* those of them that send_message failed to deliver.

Count(seq, x) == Cardinality({i \in DOMAIN seq : seq[i] = x})

IsAlert(x) == x \in {"OFFLINE", "BACK"}

UpTo2(n) == IF n > 2 THEN 2 ELSE n

RecordPoll(h, kind, ok, notes) ==
    [h EXCEPT
       !.pollBit = 1 - @,
       !.pollKind = kind,
       !.pollOk = ok,
       !.notes = notes,
       !.backDowntime = 0,
       !.backElapsed = 0,
       !.prevFailRun = h.failRun,
       !.failRun = IF ok THEN 0 ELSE IF kind = "tick" THEN @ + 1 ELSE @,
       !.runOffline = IF ok THEN 0 ELSE UpTo2(@ + Count(notes, "OFFLINE")),
       !.runBack = IF ~ok THEN 0 ELSE UpTo2(@ + Count(notes, "BACK")),
       !.sentInitial = UpTo2(@ + Count(notes, "INITIAL")),
       !.prevAlert = h.lastAlert,
       !.lastAlert = IF SelectSeq(notes, IsAlert) = <<>> THEN @
                     ELSE SelectSeq(notes, IsAlert)[Len(SelectSeq(notes, IsAlert))],
       !.okBefore = h.everOk,
       !.offlineBefore = h.everOffline,
       !.everOk = @ \/ ok,
       !.everOffline = @ \/ Count(notes, "OFFLINE") > 0,
       !.undelivered = <<>>,
       !.lostOffline = IF ok THEN FALSE ELSE @]

\* what bot.send_message can do with a notification: deliver it (TRUE) or
\* raise (FALSE); without a notification there is nothing to deliver
Deliveries(notes) == IF notes = <<>> THEN {TRUE} ELSE BOOLEAN

\* the observer's record of the notifications of the last poll that
\* send_message did not deliver
Delivery(h, delivered) ==
    [h EXCEPT
       !.undelivered = IF delivered THEN <<>> ELSE h.notes,
       !.lostOffline = @ \/ (~delivered /\ Count(h.notes, "OFFLINE") > 0)]

\* mutant: send_notification has no try / except, a failed delivery raises
Notified_Uncaught(delivered) == delivered

\* send_notification returns to the loop: always, its "except Exception"
\* logs the error of a failed delivery and returns
Notified(delivered) == TRUE

\* ------------------------------------------------ monitoring_loop

\* the "Downtime: N minutes" of the BACK ONLINE message
Downtime(ct, lsc) == Seconds(ct - lsc) \div 60

\* mutant: the recovery branch tests "it was offline" alone, not the flag
SuccessNotes_AnyOffline(ls, alerted) ==
    IF ls = "None" THEN <<"INITIAL">>
    ELSE IF alerted \/ ls = "False" THEN <<"BACK">>
    ELSE <<>>

\* mutant: the recovery branch is missing
SuccessNotes_NoRecovery(ls, alerted) ==
    IF ls = "None" THEN <<"INITIAL">> ELSE <<>>

\* the notification of the success branch, chosen by if / elif
SuccessNotes(ls, alerted) ==
    IF ls = "None" THEN <<"INITIAL">>
    ELSE IF alerted THEN <<"BACK">>
    ELSE <<>>

\* mutant: "and not offline_alert_sent" is missing
OfflineAlertDue_NoFlag(cf, alerted) == cf >= MAX_RETRIES

\* mutant: ">" for ">="
OfflineAlertDue_Late(cf, alerted) == cf > MAX_RETRIES /\ ~alerted

\* "if consecutive_failures >= MAX_RETRIES and not offline_alert_sent"
OfflineAlertDue(cf, alerted) == cf >= MAX_RETRIES /\ ~alerted

\* "if consecutive_failures == 2": the immediate refresh and re-check
RecheckDue(cf) == cf = 2

\* mutant: the status is updated in the failure branch only
NextStatus_FailureOnly(is_online) ==
    IF is_online THEN last_status ELSE "False"

\* "last_status = is_online"
NextStatus(is_online) == IF is_online THEN "True" ELSE "False"

\* mutant: the handler lets the exception end the loop
AfterExcept_Propagates == "exited"

\* where the loop goes after "except Exception": the 60 s sleep
AfterExcept == "backoff"

\* mutant: a failed re-check is counted as one more failure
FailuresAfter_CountRecheck(cf, kind, ok) == IF ok THEN 0 ELSE cf + 1

\* consecutive_failures once a poll of the loop has returned: "= 0" after a
\* successful tick poll or re-check, "+= 1" after a failed tick poll; a
\* failed re-check assigns nothing
FailuresAfter(cf, kind, ok) ==
    IF ok THEN 0 ELSE IF kind = "tick" THEN cf + 1 ELSE cf

\* "while True:" / "current_time = datetime.now()" and the periodic refresh
MonTickStart ==
    /\ monPc = "tick"
    /\ current_time' = now
    /\ IF Seconds(now - last_circuit_refresh) >= CIRCUIT_REFRESH_INTERVAL
       THEN \/ /\ RefreshWait \in RefreshDelays
               /\ monPc' = "periodic"
               /\ UNCHANGED <<last_circuit_refresh, req>>
            \/ /\ 0 \in RefreshDelays
               /\ last_circuit_refresh' = current_time'
               /\ monPc' = "poll"
               /\ req' = [req EXCEPT !["mon"] = NewReq]
       ELSE /\ monPc' = "poll"
            /\ req' = [req EXCEPT !["mon"] = NewReq]
            /\ UNCHANGED last_circuit_refresh
    /\ Resumed("mon", 0)
    /\ UNCHANGED <<last_successful_check, statusVars, cmdVars, hist>>

\* the periodic refresh returns; "last_circuit_refresh = current_time"
MonPeriodicRefresh ==
    /\ monPc = "periodic"
    /\ Resumed("mon", Remaining("mon", RefreshWait))
    /\ current_time' = Shift(current_time, Remaining("mon", RefreshWait))
    /\ last_successful_check' =
          Shift(last_successful_check, Remaining("mon", RefreshWait))
    /\ last_circuit_refresh' = current_time'
    /\ monPc' = "poll"
    /\ req' = [req EXCEPT !["mon"] = NewReq]
    /\ UNCHANGED <<statusVars, cmdVars, hist>>

\* "if is_online:" ... "last_status = is_online"
MonPollOk ==
    /\ monPc = "poll"
    /\ ReqDone("mon") /\ req["mon"].ok
    /\ consecutive_failures' = FailuresAfter(consecutive_failures, "tick", TRUE)
    /\ last_successful_check' = current_time
    /\ LET notes == SuccessNotes(last_status, offline_alert_sent)
           back == Count(notes, "BACK") > 0
       IN \E d \in Deliveries(notes) :
         /\ offline_alert_sent' =
               IF back /\ Notified(d) THEN FALSE ELSE offline_alert_sent
         /\ hist' = Delivery(
                      [RecordPoll(hist, "tick", TRUE, notes) EXCEPT
                         !.backDowntime =
                            IF back
                            THEN Downtime(current_time, last_successful_check')
                            ELSE @,
                         !.backElapsed =
                            IF back
                            THEN Seconds(current_time - last_successful_check)
                                   \div 60
                            ELSE @], d)
         /\ last_status' = IF Notified(d) THEN NextStatus(TRUE) ELSE last_status
         /\ monPc' = IF Notified(d) THEN "sleep" ELSE AfterExcept
    /\ current_time' = now
    /\ req' = [req EXCEPT !["mon"] = IdleReq]
    /\ Resumed("mon", 0)
    /\ UNCHANGED <<last_circuit_refresh, cmdVars>>

\* "else: consecutive_failures += 1" up to the refresh of the 2nd failure,
\* or through the alert to "last_status = is_online"
MonPollFail ==
    /\ monPc = "poll"
    /\ ReqDone("mon") /\ ~req["mon"].ok
    /\ consecutive_failures' =
          FailuresAfter(consecutive_failures, "tick", FALSE)
    /\ req' = [req EXCEPT !["mon"] = IdleReq]
    /\ IF RecheckDue(consecutive_failures')
       THEN /\ \/ /\ RefreshWait \in RefreshDelays
                  /\ monPc' = "second_refresh"
                  /\ UNCHANGED last_circuit_refresh
               \/ /\ 0 \in RefreshDelays
                  /\ last_circuit_refresh' = current_time
                  /\ monPc' = "settle"
            /\ hist' = RecordPoll(hist, "tick", FALSE, <<>>)
            /\ UNCHANGED <<last_status, offline_alert_sent, current_time>>
       ELSE /\ LET notes ==
                     IF OfflineAlertDue(consecutive_failures',
                                        offline_alert_sent)
                     THEN <<"OFFLINE">> ELSE <<>>
               IN \E d \in Deliveries(notes) :
                    /\ offline_alert_sent' =
                          IF notes # <<>> /\ Notified(d) THEN TRUE
                          ELSE offline_alert_sent
                    /\ hist' =
                          Delivery(RecordPoll(hist, "tick", FALSE, notes), d)
                    /\ last_status' =
                          IF Notified(d) THEN NextStatus(FALSE) ELSE last_status
                    /\ monPc' = IF Notified(d) THEN "sleep" ELSE AfterExcept
            /\ current_time' = now
            /\ UNCHANGED last_circuit_refresh
    /\ Resumed("mon", 0)
    /\ UNCHANGED <<last_successful_check, cmdVars>>

\* the refresh of the 2nd failure returns; "last_circuit_refresh = current_time"
MonSecondRefresh ==
    /\ monPc = "second_refresh"
    /\ Resumed("mon", Remaining("mon", RefreshWait))
    /\ current_time' = Shift(current_time, Remaining("mon", RefreshWait))
    /\ last_successful_check' =
          Shift(last_successful_check, Remaining("mon", RefreshWait))
    /\ last_circuit_refresh' = current_time'
    /\ monPc' = "settle"
    /\ UNCHANGED <<statusVars, req, cmdVars, hist>>

\* "await asyncio.sleep(5)" and the call of the extra re-check
MonSettle ==
    /\ monPc = "settle"
    /\ Resumed("mon", Remaining("mon", SettleDelay))
    /\ Elapse(Remaining("mon", SettleDelay))
    /\ monPc' = "recheck"
    /\ req' = [req EXCEPT !["mon"] = NewReq]
    /\ UNCHANGED <<statusVars, cmdVars, hist>>

\* "if is_online_retry:" ... "continue"
MonRecheckOk ==
    /\ monPc = "recheck"
    /\ ReqDone("mon") /\ req["mon"].ok
    /\ consecutive_failures' =
          FailuresAfter(consecutive_failures, "recheck", TRUE)
    /\ last_successful_check' = current_time
    /\ hist' = RecordPoll(hist, "recheck", TRUE, <<>>)
    /\ monPc' = "tick"
    /\ current_time' = now
    /\ req' = [req EXCEPT !["mon"] = IdleReq]
    /\ Resumed("mon", 0)
    /\ UNCHANGED <<last_circuit_refresh, last_status, offline_alert_sent,
                   cmdVars>>

\* the re-check failed: on to the alert and "last_status = is_online"
MonRecheckFail ==
    /\ monPc = "recheck"
    /\ ReqDone("mon") /\ ~req["mon"].ok
    /\ consecutive_failures' =
          FailuresAfter(consecutive_failures, "recheck", FALSE)
    /\ LET notes ==
             IF OfflineAlertDue(consecutive_failures', offline_alert_sent)
             THEN <<"OFFLINE">> ELSE <<>>
       IN \E d \in Deliveries(notes) :
            /\ offline_alert_sent' =
                  IF notes # <<>> /\ Notified(d) THEN TRUE
                  ELSE offline_alert_sent
            /\ hist' = Delivery(RecordPoll(hist, "recheck", FALSE, notes), d)
            /\ last_status' =
                  IF Notified(d) THEN NextStatus(FALSE) ELSE last_status
            /\ monPc' = IF Notified(d) THEN "sleep" ELSE AfterExcept
    /\ current_time' = now
    /\ req' = [req EXCEPT !["mon"] = IdleReq]
    /\ Resumed("mon", 0)
    /\ UNCHANGED <<last_circuit_refresh, last_successful_check, cmdVars>>

\* "await asyncio.sleep(CHECK_INTERVAL)"
MonSleep ==
    /\ monPc = "sleep"
    /\ Resumed("mon", Remaining("mon", CHECK_INTERVAL))
    /\ Elapse(Remaining("mon", CHECK_INTERVAL))
    /\ monPc' = "tick"
    /\ UNCHANGED <<statusVars, req, cmdVars, hist>>

\* an exception no inner handler caught leaves the awaited poll and
\* reaches "except Exception as e:" of the loop
MonRaise ==
    /\ monPc \in {"poll", "recheck"}
    /\ req["mon"].stage = "attempt"
    /\ monPc' = AfterExcept
    /\ current_time' = now
    /\ req' = [req EXCEPT !["mon"] = IdleReq]
    /\ Resumed("mon", 0)
    /\ UNCHANGED <<last_circuit_refresh, last_successful_check, statusVars,
                   cmdVars, hist>>

\* "await asyncio.sleep(60)" of the except handler, then the next tick
MonBackoff ==
    /\ monPc = "backoff"
    /\ Resumed("mon", Remaining("mon", ErrorBackoff))
    /\ Elapse(Remaining("mon", ErrorBackoff))
    /\ monPc' = "tick"
    /\ UNCHANGED <<statusVars, req, cmdVars, hist>>

\* ------------------------------------------------ formatting

\* 10 ** k
RECURSIVE Pow10(_)
Pow10(k) == IF k = 0 THEN 1 ELSE 10 * Pow10(k - 1)

\* the number of binary digits of n > 0
RECURSIVE BitLen(_)
BitLen(n) == IF n < 2 THEN 1 ELSE 1 + BitLen(n \div 2)

\* Long division of rem / d, rem < d, after the binary point: k more bits
\* of the significand are produced, lsb being its last bit so far; then the
\* quotient is rounded to nearest, ties to even.  The result is the sign of
\* (the rounded quotient - the exact one).
RECURSIVE RoundingSign(_, _, _, _)
RoundingSign(rem, d, k, lsb) ==
    IF k > 0
    THEN IF 2 * rem >= d
         THEN RoundingSign(2 * rem - d, d, k - 1, 1)
         ELSE RoundingSign(2 * rem, d, k - 1, 0)
    ELSE IF rem = 0 THEN 0
         ELSE IF 2 * rem < d THEN 0 - 1
         ELSE IF 2 * rem > d THEN 1
         ELSE IF lsb = 1 THEN 1 ELSE 0 - 1

\* n / d of two ints is the double nearest to the quotient (53 bits):
\* the sign of (n / d as a double) - (n / d exactly), for n >= d
QuotientError(n, d) ==
    RoundingSign(n % d, d, 53 - BitLen(n \div d), (n \div d) % 2)

\* k as w decimal digits, zero-padded
RECURSIVE PadDigits(_, _)
PadDigits(k, w) ==
    IF w = 0 THEN <<>>
    ELSE PadDigits(k \div 10, w - 1) \o <<Digits[(k % 10) + 1]>>

\* f"{n:,}"
RECURSIVE Grouped(_)
Grouped(n) ==
    IF n < 1000 THEN NatToStr(n)
    ELSE Grouped(n \div 1000) \o <<",">> \o PadDigits(n % 1000, 3)

\* f"{n / 10**e:.{places}f}" for n >= 10**e and places <= e: the double
\* n / 10**e, rounded correctly to places decimals.  Where the exact
\* quotient lies halfway between two results, the error of the double
\* decides, and ties-to-even if the double is exact.
FixedPoint(n, e, places) ==
    LET u == Pow10(e - places)
        q == n \div u
        r == n % u
        err == QuotientError(n, Pow10(e))
        up == \/ 2 * r > u
              \/ 2 * r = u /\ (err > 0 \/ (err = 0 /\ q % 2 = 1))
        m == IF up THEN q + 1 ELSE q
    IN NatToStr(m \div Pow10(places)) \o <<".">>
         \o PadDigits(m % Pow10(places), places)

\* mutant: the ranges tested with ">" for ">="
format_satoshis_Exclusive(sats) ==
    IF sats = 0 THEN <<"0", " sats">>
    ELSE IF sats > 100000000
    THEN FixedPoint(sats, 8, 8) \o <<" BTC (">> \o Grouped(sats) \o <<" sats)">>
    ELSE IF sats > 1000000
    THEN FixedPoint(sats, 6, 2) \o <<"M sats (">> \o Grouped(sats) \o <<")">>
    ELSE IF sats > 1000
    THEN FixedPoint(sats, 3, 1) \o <<"k sats (">> \o Grouped(sats) \o <<")">>
    ELSE Grouped(sats) \o <<" sats">>

\* format_satoshis(sats) for an int sats >= 0.  The text is a sequence of
\* its characters, the literal parts of each f-string kept whole.
format_satoshis(sats) ==
    IF sats = 0 THEN <<"0", " sats">>
    ELSE IF sats >= 100000000
    THEN FixedPoint(sats, 8, 8) \o <<" BTC (">> \o Grouped(sats) \o <<" sats)">>
    ELSE IF sats >= 1000000
    THEN FixedPoint(sats, 6, 2) \o <<"M sats (">> \o Grouped(sats) \o <<")">>
    ELSE IF sats >= 1000
    THEN FixedPoint(sats, 3, 1) \o <<"k sats (">> \o Grouped(sats) \o <<")">>
    ELSE Grouped(sats) \o <<" sats">>

\* sum(int(event.get(field, 0)) for event in events)
RECURSIVE SumOf(_, _)
SumOf(events, field) ==
    IF events = <<>> THEN 0
    ELSE Head(events)[field] + SumOf(Tail(events), field)

\* sum(int(event.get(field, 0)) // 1000 for event in events)
RECURSIVE SumOfSats(_, _)
SumOfSats(events, field) ==
    IF events = <<>> THEN 0
    ELSE (Head(events)[field] \div 1000) + SumOfSats(Tail(events), field)

\* what fees_command shows for amounts and counts
Shown(total_fee_earned, total_events, avg_fee, total_volume) ==
    [total_fee_earned |-> total_fee_earned,
     total_events |-> total_events,
     avg_fee |-> avg_fee,
     total_volume |-> total_volume,
     earned_text |-> format_satoshis(total_fee_earned),
     events_text |-> NatToStr(total_events),
     avg_text |-> NatToStr(avg_fee) \o <<" sats">>,
     volume_text |-> format_satoshis(total_volume)]

\* mutant: every event converted to sats before the sum, as the list of
\* recent events does
FeeSummary_PerEvent(events) ==
    Shown(SumOfSats(events, "fee_msat"),
          Len(events),
          IF Len(events) > 0
          THEN SumOfSats(events, "fee_msat") \div Len(events) ELSE 0,
          SumOfSats(events, "amt_out_msat"))

\* the totals of fees_command for a non-empty list of forwarding events
FeeSummary(events) ==
    Shown(SumOf(events, "fee_msat") \div 1000,
          Len(events),
          IF Len(events) > 0
          THEN (SumOf(events, "fee_msat") \div 1000) \div Len(events) ELSE 0,
          SumOf(events, "amt_out_msat") \div 1000)

\* no formatting function is being called
NoFmt == [fn |-> "none", arg |-> 0, out |-> <<>>, done |-> FALSE]

\* amounts in sats: the ends of every range and amounts inside them
Amounts ==
    (0..12) \cup (990..1010)
    \cup {1050, 1250, 1350, 1450, 1500, 1750, 1949, 1950, 9999, 99949, 99950,
          999949, 999950, 999999, 1000000, 1000001, 1004999, 1005000,
          1015000, 2500000, 99994999, 99995000, 99999999, 100000000,
          100000001, 150000000, 2100000000}

\* forwarding events of the node
FeeEvents ==
    {[fee_msat |-> 1000, amt_out_msat |-> 500000],
     [fee_msat |-> 2000, amt_out_msat |-> 1000000],
     [fee_msat |-> 1500, amt_out_msat |-> 1999],
     [fee_msat |-> 999, amt_out_msat |-> 0],
     [fee_msat |-> 0, amt_out_msat |-> 999]}

EventLists == UNION {[1..n -> FeeEvents] : n \in 1..MaxEvents}

FmtCalls ==
    {[fn |-> "format_satoshis", arg |-> a, out |-> <<>>, done |-> FALSE] :
        a \in Amounts}
    \cup {[fn |-> "fees_command", arg |-> ev, out |-> <<>>, done |-> FALSE] :
        ev \in EventLists}

fmtFrame ==
    <<times, statusVars, monPc, req, cmdPc, cmd, lastCmd, app, waited, hist>>

\* the call format_satoshis(fmt.arg) returns
CallFormatSatoshis ==
    /\ fmt.fn = "format_satoshis" /\ ~fmt.done
    /\ fmt' = [fmt EXCEPT !.out = format_satoshis(fmt.arg), !.done = TRUE]
    /\ UNCHANGED fmtFrame

\* fees_command computes its totals from the events fmt.arg
CallFeeSummary ==
    /\ fmt.fn = "fees_command" /\ ~fmt.done
    /\ fmt' = [fmt EXCEPT !.out = FeeSummary(fmt.arg), !.done = TRUE]
    /\ UNCHANGED fmtFrame

\* ------------------------------------------------ command handlers

Commands == {"help", "start", "info", "balance", "channels", "peers", "fees"}

Payloads == {"good", "bad"}

\* application.add_handler(CommandHandler(name, function))
Handler(c) ==
    CASE c = "help" -> "help_command"
      [] c = "start" -> "help_command"
      [] c = "info" -> "info_command"
      [] c = "balance" -> "balance_command"
      [] c = "channels" -> "channels_command"
      [] c = "peers" -> "peers_command"
      [] c = "fees" -> "fees_command"

\* the functions wrapped by check_authorization
Decorated ==
    {"help_command", "info_command", "balance_command", "channels_command",
     "peers_command", "fees_command"}

\* mutant: "in" for "==": str(chat_id) occurs in str(TELEGRAM_CHAT_ID)
Authorized_Substring(chat) ==
    \E i \in 1..Len(TELEGRAM_CHAT_ID), j \in 1..Len(TELEGRAM_CHAT_ID) :
        SubSeq(TELEGRAM_CHAT_ID, i, j) = IntToStr(chat)

\* "str(chat_id) != str(TELEGRAM_CHAT_ID)" is false
Authorized(chat) == IntToStr(chat) = TELEGRAM_CHAT_ID

\* the Node Client calls a handler awaits, in order
NodeCalls(fn) ==
    CASE fn = "help_command" -> <<>>
      [] fn = "info_command" -> <<"check_lnd_node">>
      [] fn = "balance_command" -> <<"get_wallet_balance", "get_channel_balance">>
      [] fn = "channels_command" -> <<"get_channels", "get_pending_channels">>
      [] fn = "peers_command" -> <<"get_peers", "check_lnd_node">>
      [] fn = "fees_command" -> <<"get_forwarding_history">>

\* mutant: balance_command tests "wallet_success or channel_success"
Outcome_BalanceEither(fn, rs) ==
    CASE fn = "balance_command" ->
           IF rs[1].ok \/ rs[2].ok
           THEN IF "good" # rs[1].payload \/ "good" # rs[2].payload
                THEN "raise" ELSE "report"
           ELSE "unavailable"
      [] OTHER ->
           IF rs[1].ok
           THEN IF rs[1].payload = "bad" THEN "raise" ELSE "report"
           ELSE "unavailable"

\* What a handler does with the results rs of its calls: "report" (the
\* formatted summary), "unavailable" (the node-may-be-offline text) or
\* "raise" (an exception leaves the handler before reply_text).  A "bad"
\* payload is a JSON body of the wrong shape, on which .get / int() raise.
Outcome(fn, rs) ==
    CASE fn = "info_command" ->
           IF rs[1].ok
           THEN IF rs[1].payload = "bad" THEN "raise" ELSE "report"
           ELSE "unavailable"
      [] fn = "balance_command" ->
           IF rs[1].ok /\ rs[2].ok
           THEN IF "bad" \in {rs[1].payload, rs[2].payload}
                THEN "raise" ELSE "report"
           ELSE "unavailable"
      [] fn = "channels_command" ->
           IF rs[1].ok
           THEN IF rs[1].payload = "bad" \/ (rs[2].ok /\ rs[2].payload = "bad")
                THEN "raise" ELSE "report"
           ELSE "unavailable"
      [] fn = "peers_command" ->
           IF rs[1].ok
           THEN IF rs[1].payload = "bad" \/ rs[2].payload = "bad"
                THEN "raise" ELSE "report"
           ELSE "unavailable"
      [] fn = "fees_command" ->
           IF rs[1].ok
           THEN IF rs[1].payload = "bad" THEN "raise" ELSE "report"
           ELSE "unavailable"

NoCmd == [name |-> "none", chat |-> 0, results |-> <<>>]

NoLastCmd == [name |-> "none", chat |-> 0, results |-> <<>>, calls |-> 0,
              replies |-> <<>>, raised |-> FALSE]

Finished(c, chat, rs, replies, raised) ==
    [name |-> c, chat |-> chat, results |-> rs, calls |-> Len(rs),
     replies |-> replies, raised |-> raised]

\* The Application before "await application.updater.start_polling()":
\* the updater does not poll, Telegram holds no update for the bot, no
\* update is being handled, and no shutdown has happened.
NewApp == [polling |-> FALSE, pending |-> <<>>, handling |-> "none",
           signal |-> "none", stopNotes |-> 0]

\* start_polling() is called with no argument: drop_pending_updates keeps
\* its default, and the updates Telegram holds are fetched, not dropped
DropPendingUpdates == FALSE

\* someone sends command c from chat while the bot does not poll yet;
\* Telegram keeps the update for the bot
UpdateArrives(c, chat) ==
    /\ cmdPc = "idle"
    /\ ~app.polling
    /\ Len(app.pending) < MaxBacklog
    /\ app' = [app EXCEPT !.pending = Append(@, [name |-> c, chat |-> chat])]
    /\ UNCHANGED <<times, statusVars, monPc, req, cmdPc, cmd, lastCmd, fmt,
                   waited, hist>>

\* "await application.updater.start_polling()"
StartPolling ==
    /\ cmdPc = "idle"
    /\ ~app.polling
    /\ app' = [app EXCEPT !.polling = TRUE,
                          !.pending = IF DropPendingUpdates THEN <<>> ELSE @]
    /\ UNCHANGED <<times, statusVars, monPc, req, cmdPc, cmd, lastCmd, fmt,
                   waited, hist>>

\* An update with command c from chat reaches wrapper(update, context):
\* the oldest update Telegram still holds or, when it holds none, one
\* that arrives now.
CmdDispatch(c, chat) ==
    /\ cmdPc = "idle"
    /\ app.polling
    /\ app.pending # <<>> => Head(app.pending) = [name |-> c, chat |-> chat]
    /\ app' = [app EXCEPT
                 !.pending = IF @ = <<>> THEN @ ELSE Tail(@),
                 !.handling = IF app.pending = <<>> THEN "fresh" ELSE "stale"]
    /\ IF Handler(c) \in Decorated /\ ~Authorized(chat)
       THEN \* reply_text("Unauthorized access"); return
            /\ lastCmd' = Finished(c, chat, <<>>, <<"unauthorized">>, FALSE)
            /\ cmdPc' = "replied"
            /\ UNCHANGED <<cmd, req>>
       ELSE IF NodeCalls(Handler(c)) = <<>>
       THEN /\ lastCmd' = Finished(c, chat, <<>>, <<"help">>, FALSE)
            /\ cmdPc' = "replied"
            /\ UNCHANGED <<cmd, req>>
       ELSE /\ cmd' = [name |-> c, chat |-> chat, results |-> <<>>]
            /\ cmdPc' = "calling"
            /\ req' = [req EXCEPT !["cmd"] = NewReq]
            /\ UNCHANGED lastCmd
    /\ Resumed("cmd", 0)
    /\ UNCHANGED <<times, statusVars, monPc, fmt, hist>>

\* a Node Client call of the handler returned
CmdCallDone ==
    /\ cmdPc = "calling"
    /\ ReqDone("cmd")
    /\ LET rs == Append(cmd.results,
                        [ok |-> req["cmd"].ok, payload |-> req["cmd"].payload])
           fn == Handler(cmd.name)
       IN IF Len(rs) < Len(NodeCalls(fn))
          THEN /\ cmd' = [cmd EXCEPT !.results = rs]
               /\ req' = [req EXCEPT !["cmd"] = NewReq]
               /\ UNCHANGED <<cmdPc, lastCmd>>
          ELSE /\ lastCmd' =
                    IF Outcome(fn, rs) = "raise"
                    THEN Finished(cmd.name, cmd.chat, rs, <<>>, TRUE)
                    ELSE Finished(cmd.name, cmd.chat, rs,
                                  <<Outcome(fn, rs)>>, FALSE)
               /\ cmd' = NoCmd
               /\ cmdPc' = "replied"
               /\ req' = [req EXCEPT !["cmd"] = IdleReq]
    /\ Resumed("cmd", 0)
    /\ UNCHANGED <<times, statusVars, monPc, app, fmt, hist>>

\* the handler returned; the dispatcher waits for the next update
CmdReturn ==
    /\ cmdPc = "replied"
    /\ cmdPc' = "idle"
    /\ lastCmd' = NoLastCmd
    /\ app' = [app EXCEPT !.handling = "none"]
    /\ Resumed("cmd", 0)
    /\ UNCHANGED <<times, statusVars, monPc, req, cmd, fmt, hist>>

\* ------------------------------------------------ shutdown

\* How a termination signal ends main():
\*  "cancel"     SIGINT: asyncio.run cancels the main task, CancelledError
\*               is raised at "await monitoring_task"; it is no
\*               KeyboardInterrupt, so only the finally clause runs
\*  "interrupt"  SIGINT raised as KeyboardInterrupt in the frame of main
\*               itself, inside its try: the except clause runs first
\*  "kill"       SIGTERM, for which no handler is installed: the process
\*               ends at once
Signals == {"cancel", "interrupt", "kill"}

\* the "Monitor stopped" notifications main attempts on signal sig
StopNotes(sig) == IF sig = "interrupt" THEN 1 ELSE 0

\* "except KeyboardInterrupt:" / "finally: monitoring_task.cancel()",
\* "application.stop()", or the end of the process
Stop(sig) ==
    /\ monPc \notin {"cancelled", "exited"}
    /\ monPc' = "cancelled"
    /\ cmdPc' = "stopped"
    /\ app' = [app EXCEPT !.polling = FALSE, !.signal = sig,
                          !.stopNotes = StopNotes(sig)]
    /\ current_time' = now
    /\ req' = [p \in Procs |-> IdleReq]
    /\ waited' = [p \in Procs |-> 0]
    /\ UNCHANGED <<last_circuit_refresh, last_successful_check, statusVars,
                   cmd, lastCmd, fmt, hist>>

Shutdown == \E sig \in Signals : Stop(sig)

\* ------------------------------------------------ specification

NoHist ==
    [pollBit |-> 0, pollKind |-> "none", pollOk |-> FALSE, notes |-> <<>>,
     undelivered |-> <<>>, lostOffline |-> FALSE,
     prevFailRun |-> 0, failRun |-> 0, runOffline |-> 0, runBack |-> 0,
     sentInitial |-> 0, prevAlert |-> "none", lastAlert |-> "none",
     okBefore |-> FALSE, offlineBefore |-> FALSE,
     everOk |-> FALSE, everOffline |-> FALSE,
     backDowntime |-> 0, backElapsed |-> 0]

Start ==
    /\ last_status = "None"
    /\ consecutive_failures = 0
    /\ last_successful_check = now
    /\ offline_alert_sent = FALSE
    /\ last_circuit_refresh = now
    /\ monPc = "tick"
    /\ current_time = now
    /\ req = [p \in Procs |-> IdleReq]
    /\ cmdPc = "idle"
    /\ cmd = NoCmd
    /\ lastCmd = NoLastCmd
    /\ app = NewApp
    /\ waited = [p \in Procs |-> 0]
    /\ hist = NoHist

Init == Start /\ fmt = NoFmt

reqFrame == <<statusVars, monPc, cmdVars, hist>>

\* the steps of the requests of the tasks in P
ReqNext(P) ==
    \/ \E p \in P, pl \in Payloads : ReqOk(p, pl) /\ UNCHANGED reqFrame
    \/ \E p \in P, code \in {401, 500} :
         ReqStatus(p, code) /\ UNCHANGED reqFrame
    \/ \E p \in P : ReqTimeout(p) /\ UNCHANGED reqFrame
    \/ \E p \in P : ReqConnError(p) /\ UNCHANGED reqFrame
    \/ \E p \in P : ReqOtherError(p) /\ UNCHANGED reqFrame
    \/ \E p \in P : ReqRefreshDone(p) /\ UNCHANGED reqFrame
    \/ \E p \in P : ReqPause(p) /\ UNCHANGED reqFrame

\* the steps of a tick in which nothing raises
MonTick ==
    \/ MonTickStart
    \/ MonPeriodicRefresh
    \/ MonPollOk
    \/ MonPollFail
    \/ MonSecondRefresh
    \/ MonSettle
    \/ MonRecheckOk
    \/ MonRecheckFail
    \/ MonSleep

MonNext ==
    \/ MonTick
    \/ MonRaise
    \/ MonBackoff

CmdNext ==
    \/ \E c \in Commands, chat \in ChatIds : UpdateArrives(c, chat)
    \/ StartPolling
    \/ \E c \in Commands, chat \in ChatIds : CmdDispatch(c, chat)
    \/ CmdCallDone
    \/ CmdReturn

Next == ReqNext(Procs) \/ MonNext \/ CmdNext \/ Shutdown

\* both tasks, every command
Spec == Init /\ [][Next]_vars

\* the monitoring loop while no update arrives
MonOnlyNext == ReqNext({"mon"}) \/ MonNext \/ Shutdown

SpecMon == Init /\ [][MonOnlyNext]_vars

\* the same while no exception reaches the handler of the loop
MonCalmNext == ReqNext({"mon"}) \/ MonTick \/ Shutdown

SpecMonCalm == Init /\ [][MonCalmNext]_vars

\* The steps of the monitoring task.  The event loop resumes a task whose
\* await has completed, and every await of the loop completes: a sleep
\* ends, a request returns or times out after TIMEOUT seconds.
MonTask == ReqNext({"mon"}) \/ MonNext

FairSpecMon == SpecMon /\ WF_vars(MonTask)

\* the command dispatcher while the monitoring loop takes no step
CmdOnlyNext == ReqNext({"cmd"}) \/ CmdNext \/ Shutdown

SpecCmd == Init /\ [][CmdOnlyNext]_vars

\* the formatting functions, each called once on an input
InitFmt == Start /\ fmt \in FmtCalls

FmtNext == CallFormatSatoshis \/ CallFeeSummary

SpecFmt == InitFmt /\ [][FmtNext]_vars

\* The first tick of the monitoring loop, up to its sleep, interleaved at
\* every await with one command of the operator, up to its reply.  (The
\* periodic refresh is not due in it: the one command cannot let
\* CIRCUIT_REFRESH_INTERVAL pass before the tick starts.)
TickAndCommandsNext ==
    \/ ReqNext(Procs)
    \/ MonTickStart
    \/ MonPollOk
    \/ MonPollFail
    \/ StartPolling
    \/ \E c \in Commands : CmdDispatch(c, OperatorChat)
    \/ CmdCallDone

SpecTickCmd == Init /\ [][TickAndCommandsNext]_vars

\* a request of task p is answered in time or runs into its timeout
SlowReqNext(P) ==
    \/ \E p \in P : ReqOk(p, "good") /\ UNCHANGED reqFrame
    \/ \E p \in P : ReqTimeout(p) /\ UNCHANGED reqFrame
    \/ \E p \in P : ReqRefreshDone(p) /\ UNCHANGED reqFrame

\* The monitoring loop, no exception reaching its handler, interleaved at
\* every await with one /info of the operator, up to its reply, while the
\* node either answers or lets the request run into its timeout.
SlowNodeNext ==
    \/ SlowReqNext(Procs)
    \/ MonTick
    \/ StartPolling
    \/ CmdDispatch("info", OperatorChat)
    \/ CmdCallDone

SpecSlowNode == Init /\ [][SlowNodeNext]_vars

\* ================================================================ claims

HasNote(x) == Count(hist.notes, x) > 0

\* C1: during a maximal run of consecutive failed polls at most one OFFLINE
\* notification is emitted, and on the successful polls that follow a run
\* at most one BACK ONLINE notification is emitted.
C1_OneAlertPerRun == hist.runOffline <= 1 /\ hist.runBack <= 1

\* a success without notification after the success that sent BACK ONLINE
C1_Witness ==
    /\ hist.runBack = 1
    /\ hist.pollOk /\ hist.pollKind = "tick"
    /\ hist.notes = <<>>

\* C2: the OFFLINE notification of a run of failed ticks is emitted by the
\* tick that makes the run MAX_RETRIES (3) long: no failed poll of a
\* shorter run emits it, the MAX_RETRIES-th failed tick does, and a run
\* that long has emitted it.
C2_ThresholdExact ==
    /\ hist.failRun < MAX_RETRIES => hist.runOffline = 0
    /\ hist.failRun >= MAX_RETRIES => hist.runOffline >= 1
    /\ (~hist.pollOk /\ hist.pollKind # "none") =>
          (HasNote("OFFLINE") <=>
             (hist.pollKind = "tick" /\ hist.failRun = MAX_RETRIES))

\* the 3rd failed tick in a row since startup sent OFFLINE
C2_Witness ==
    /\ ~hist.okBefore /\ ~hist.pollOk
    /\ hist.failRun = MAX_RETRIES
    /\ hist.notes = <<"OFFLINE">>

\* C3: a successful poll that ends a run of fewer than MAX_RETRIES failed
\* ticks emits neither OFFLINE nor BACK ONLINE, and no poll of such a run
\* has emitted OFFLINE.
C3_ShortRunSilent ==
    /\ (hist.pollOk /\ hist.prevFailRun \in 1..(MAX_RETRIES - 1)) =>
          (~HasNote("OFFLINE") /\ ~HasNote("BACK"))
    /\ (hist.failRun \in 1..(MAX_RETRIES - 1)) =>
          (hist.runOffline = 0 /\ ~HasNote("BACK"))

\* a tick poll succeeded after two failed ticks
C3_Witness ==
    /\ hist.pollOk /\ hist.pollKind = "tick"
    /\ hist.prevFailRun = MAX_RETRIES - 1
    /\ hist.everOk /\ hist.notes = <<>>

\* C4: OFFLINE and BACK ONLINE alternate, OFFLINE first.  A poll emits at
\* most one of them; OFFLINE only when the alert before it was not OFFLINE,
\* BACK ONLINE only when the alert before it was OFFLINE; the first
\* successful tick poll after an OFFLINE emits exactly BACK ONLINE and
\* clears offline_alert_sent, which is set exactly while the last alert is
\* an OFFLINE.
C4_Alternate ==
    /\ Count(hist.notes, "OFFLINE") + Count(hist.notes, "BACK") <= 1
    /\ HasNote("OFFLINE") => hist.prevAlert # "OFFLINE"
    /\ HasNote("BACK") => hist.prevAlert = "OFFLINE"
    /\ (hist.pollOk /\ hist.pollKind = "tick" /\ hist.prevAlert = "OFFLINE") =>
          (hist.notes = <<"BACK">> /\ ~offline_alert_sent)
    /\ offline_alert_sent <=> hist.lastAlert = "OFFLINE"

\* a second OFFLINE, after a BACK ONLINE
C4_Witness == hist.notes = <<"OFFLINE">> /\ hist.prevAlert = "BACK"

\* C5 (as claimed): a successful poll before which no poll had succeeded and
\* no OFFLINE had been emitted emits the initial ONLINE notification and
\* leaves last_status online.
C5_InitialOnFirstSuccess ==
    (hist.pollOk /\ ~hist.okBefore /\ ~hist.offlineBefore) =>
        (hist.notes = <<"INITIAL">> /\ last_status = "True")

\* C6: the initial ONLINE notification is emitted at most once, never by
\* the poll that emits BACK ONLINE, and last_status never returns to None.
C6_InitialOnce ==
    /\ [](hist.sentInitial <= 1 /\ ~(HasNote("INITIAL") /\ HasNote("BACK")))
    /\ [][last_status # "None" => last_status' # "None"]_vars

\* the initial notification was sent and, later, a BACK ONLINE
C6_Witness == hist.sentInitial = 1 /\ HasNote("BACK")

\* C7 (as claimed): the downtime of a BACK ONLINE message is the whole
\* minutes between the recovery tick and the value last_successful_check
\* held before that tick updated it.
C7_DowntimeSinceLastSuccess ==
    HasNote("BACK") => hist.backDowntime = hist.backElapsed

\* C8: an update from a chat other than the configured one never causes a
\* Node Client call: no handler is awaiting calls for it, no request of
\* the command side is in flight for it, and its invocation ends with no
\* call made.
C8_UnauthorizedNoNodeCall ==
    /\ cmdPc = "calling" => cmd.chat = OperatorChat
    /\ req["cmd"].stage # "idle" => cmd.chat = OperatorChat
    /\ (lastCmd.name # "none" /\ lastCmd.chat # OperatorChat) =>
          lastCmd.calls = 0

\* /fees from another chat was answered without a call
C8_Witness ==
    /\ lastCmd.name = "fees"
    /\ lastCmd.chat # OperatorChat
    /\ lastCmd.calls = 0
    /\ lastCmd.replies = <<"unauthorized">>

\* C9: the monitoring loop never ends of its own accord.  An exception
\* that leaves the awaited poll takes the loop to the backoff sleep; that
\* sleep lasts ErrorBackoff seconds and is followed by the next tick; and,
\* the task being scheduled fairly, the loop is again and again at the
\* start of a tick and again and again past it, so every tick is followed
\* by another one, unless the task is cancelled.
C9_LoopSurvives ==
    /\ [](monPc # "exited")
    /\ [][(/\ monPc \in {"poll", "recheck"}
           /\ req["mon"].stage = "attempt"
           /\ req["mon"]'.stage = "idle"
           /\ monPc' # "cancelled") => monPc' = "backoff"]_vars
    /\ [][(monPc = "backoff" /\ monPc' # "backoff") =>
             \/ monPc' = "cancelled"
             \/ /\ monPc' = "tick"
                /\ last_successful_check' =
                     Shift(last_successful_check, ErrorBackoff)]_vars
    /\ []<>(monPc \in {"tick", "cancelled"})
    /\ []<>(monPc # "tick")

\* the exception of a re-check was caught: the loop is in its backoff sleep
C9_Witness == monPc = "backoff" /\ consecutive_failures = 2

\* the calls whose failure leaves a handler without the data of its report
GatingCalls(c) ==
    CASE c = "info" -> {1}
      [] c = "balance" -> {1, 2}
      [] c = "channels" -> {1}
      [] c = "peers" -> {1}
      [] c = "fees" -> {1}
      [] OTHER -> {}

\* C10: when a Node Client call its report depends on has failed, each of
\* /info, /balance, /channels, /peers and /fees from the operator sends
\* exactly one reply, the unavailable message, and does not raise.
C10_NodeDownReply ==
    (/\ lastCmd.chat = OperatorChat
     /\ \E i \in GatingCalls(lastCmd.name) : ~lastCmd.results[i].ok) =>
        (lastCmd.replies = <<"unavailable">> /\ ~lastCmd.raised)

\* /balance with the wallet call answered and the channel call failed
C10_Witness ==
    /\ lastCmd.name = "balance" /\ lastCmd.chat = OperatorChat
    /\ lastCmd.results[1].ok /\ ~lastCmd.results[2].ok
    /\ lastCmd.replies = <<"unavailable">>

\* C11: a node payload of an unexpected shape met while a report is built
\* is contained in that report: the handler does not raise and sends its
\* one (degraded) reply.
C11_MalformedContained ==
    (/\ lastCmd.chat = OperatorChat
     /\ \E i \in DOMAIN lastCmd.results : lastCmd.results[i].payload = "bad") =>
        (~lastCmd.raised /\ Len(lastCmd.replies) = 1)

\* C12: an update that was sent to the bot before it started polling is
\* never handed to a command handler.
C12_BacklogDrained == app.handling # "stale"

\* C13: once a termination signal has ended the program, the monitoring
\* loop and the command listener are both stopped and exactly one final
\* "stopped" notification has been attempted.
C13_StopNotified ==
    app.signal # "none" =>
        (monPc = "cancelled" /\ cmdPc = "stopped" /\ app.stopNotes = 1)

\* the sum of a field over the events, counted up event by event
EventTotal(ev, field) ==
    LET upTo[i \in 0..Len(ev)] ==
            IF i = 0 THEN 0 ELSE upTo[i - 1] + ev[i][field]
    IN upTo[Len(ev)]

\* q is floor(a / b)
IsFloorOf(q, a, b) == q * b <= a /\ a < (q + 1) * b

\* the two events of the example
ExampleEvents ==
    <<[fee_msat |-> 1000, amt_out_msat |-> 500000],
      [fee_msat |-> 2000, amt_out_msat |-> 1000000]>>

\* C14: for a non-empty list of forwarding events /fees shows total earned
\* = floor(sum of fee_msat / 1000), the number of events, average fee =
\* floor(total earned / number of events) and total volume = floor(sum of
\* amt_out_msat / 1000); for the two events of the example these are 3, 2,
\* 1 and 1500, shown as "3 sats", "2", "1 sats" and "1.5k sats (1,500)".
C14_FeeTotals ==
    (fmt.fn = "fees_command" /\ fmt.done) =>
        /\ IsFloorOf(fmt.out.total_fee_earned,
                     EventTotal(fmt.arg, "fee_msat"), 1000)
        /\ fmt.out.total_events = Len(fmt.arg)
        /\ IsFloorOf(fmt.out.avg_fee, fmt.out.total_fee_earned, Len(fmt.arg))
        /\ IsFloorOf(fmt.out.total_volume,
                     EventTotal(fmt.arg, "amt_out_msat"), 1000)
        /\ fmt.arg = ExampleEvents =>
              /\ fmt.out.total_fee_earned = 3
              /\ fmt.out.total_events = 2
              /\ fmt.out.avg_fee = 1
              /\ fmt.out.total_volume = 1500
              /\ fmt.out.earned_text = <<"3", " sats">>
              /\ fmt.out.events_text = <<"2">>
              /\ fmt.out.avg_text = <<"1", " sats">>
              /\ fmt.out.volume_text =
                   <<"1", ".", "5", "k sats (", "1", ",", "5", "0", "0", ")">>

\* the summary of the example's events has been computed
C14_Witness ==
    fmt.fn = "fees_command" /\ fmt.done /\ fmt.arg = ExampleEvents

IsDigit(ch) == \E i \in 1..10 : Digits[i] = ch

\* text is <digits> "." <places digits> unit <the amount n, its digits in
\* groups of three> tail
ScaledShape(text, n, unit, places, tail) ==
    \E i \in 1..Len(text) :
        /\ text[i] = unit
        /\ i > places + 2
        /\ text[i - places - 1] = "."
        /\ \A j \in 1..(i - 1) : j # i - places - 1 => IsDigit(text[j])
        /\ text[Len(text)] = tail
        /\ LET amount == SubSeq(text, i + 1, Len(text) - 1)
           IN /\ SelectSeq(amount, IsDigit) = NatToStr(n)
              /\ \A j \in 1..Len(amount) :
                    (amount[j] = ",") <=>
                        ((Len(amount) - j) % 4 = 3)

\* C15: format_satoshis picks the unit of a non-negative integer amount by
\* its range: below 1,000 the amount and "sats"; from 1,000 to 999,999
\* "k sats" with one decimal; from 1,000,000 to 99,999,999 "M sats" with
\* two decimals; from 100,000,000 BTC with 8 decimals and the amount in
\* sats grouped by commas; and 999, 1500, 2,500,000 and 150,000,000 give
\* "999 sats", "1.5k sats (1,500)", "2.50M sats (2,500,000)" and
\* "1.50000000 BTC (150,000,000 sats)".
C15_UnitByRange ==
    (fmt.fn = "format_satoshis" /\ fmt.done) =>
        /\ fmt.arg < 1000 => fmt.out = NatToStr(fmt.arg) \o <<" sats">>
        /\ fmt.arg \in 1000..999999 =>
              ScaledShape(fmt.out, fmt.arg, "k sats (", 1, ")")
        /\ fmt.arg \in 1000000..99999999 =>
              ScaledShape(fmt.out, fmt.arg, "M sats (", 2, ")")
        /\ fmt.arg >= 100000000 =>
              ScaledShape(fmt.out, fmt.arg, " BTC (", 8, " sats)")
        /\ fmt.arg = 999 => fmt.out = <<"9", "9", "9", " sats">>
        /\ fmt.arg = 1500 =>
              fmt.out = <<"1", ".", "5", "k sats (", "1", ",", "5", "0", "0",
                          ")">>
        /\ fmt.arg = 2500000 =>
              fmt.out = <<"2", ".", "5", "0", "M sats (", "2", ",", "5", "0",
                          "0", ",", "0", "0", "0", ")">>
        /\ fmt.arg = 150000000 =>
              fmt.out = <<"1", ".", "5", "0", "0", "0", "0", "0", "0", "0",
                          " BTC (", "1", "5", "0", ",", "0", "0", "0", ",",
                          "0", "0", "0", " sats)">>

\* the largest amount of the "k sats" range has been formatted
C15_Witness ==
    /\ fmt.fn = "format_satoshis" /\ fmt.done /\ fmt.arg = 999999
    /\ fmt.out[Len(fmt.out)] = ")"

\* HTTP attempts a call has begun so far
Begun(r) == r.attempts + (IF r.stage = "attempt" THEN 1 ELSE 0)

\* C16: a call of make_lnd_request that starts with retry_count = 0 makes
\* at most two HTTP attempts and at most one circuit refresh; a failed
\* retried attempt ends the call with failure at once, with no further
\* refresh and no further retry.
C16_BoundedRetry ==
    /\ [](\A p \in Procs :
            /\ Begun(req[p]) <= 2
            /\ req[p].refreshes <= 1
            /\ req[p].retry <= 1
            /\ req[p].retry = 1 => req[p].refreshes = 1)
    /\ [][\A p \in Procs :
            (req[p].stage = "attempt" /\ req[p].retry = 1) =>
                \/ req[p]' = req[p]
                \/ req[p]'.stage = "idle"
                \/ /\ req[p]'.stage = "done"
                   /\ req[p]'.attempts = 2
                   /\ req[p]'.refreshes = 1]_vars

\* a call has returned failure after its retried attempt failed too
C16_Witness ==
    /\ req["cmd"].stage = "done" /\ ~req["cmd"].ok
    /\ req["cmd"].attempts = 2 /\ req["cmd"].refreshes = 1

\* the time since last_circuit_refresh
RefreshAge == now - last_circuit_refresh

\* C17: when the first attempt of a request times out, the circuit is
\* refreshed and the request retried exactly once if the time since
\* last_circuit_refresh exceeds CIRCUIT_REFRESH_INTERVAL; otherwise the
\* request returns failure with no refresh and no retry.
C17_TimeoutRefreshIff ==
    [][\A p \in Procs :
         /\ ( /\ req[p].stage = "attempt" /\ req[p].retry = 0
              /\ req[p]'.stage = "refresh_timeout" ) =>
                RefreshAge' > CIRCUIT_REFRESH_INTERVAL
         /\ ( /\ req[p].stage = "attempt" /\ req[p].retry = 0
              /\ req[p]'.stage = "done" /\ req[p]'.cause = "timeout" ) =>
                /\ RefreshAge' <= CIRCUIT_REFRESH_INTERVAL
                /\ ~req[p]'.ok
                /\ req[p]'.attempts = 1 /\ req[p]'.refreshes = 0
         /\ ( req[p].stage = "refresh_timeout" /\ req[p]' # req[p] ) =>
                \/ req[p]'.stage = "idle"
                \/ /\ req[p]'.stage = "attempt"
                   /\ req[p]'.retry = 1 /\ req[p]'.refreshes = 1
                   /\ RefreshAge' = 0]_vars

\* a first attempt timed out exactly CIRCUIT_REFRESH_INTERVAL after the
\* last refresh and the call returned without a refresh
C17_Witness ==
    /\ req["cmd"].stage = "done" /\ req["cmd"].cause = "timeout"
    /\ req["cmd"].attempts = 1 /\ req["cmd"].refreshes = 0
    /\ RefreshAge = CIRCUIT_REFRESH_INTERVAL

\* C18 as claimed: a connection error on the first attempt leads to a
\* circuit refresh only if the time since last_circuit_refresh exceeds
\* CIRCUIT_REFRESH_INTERVAL, as for a timeout.
C18_ConnSameCondition ==
    [][\A p \in Procs :
         ( /\ req[p].stage = "attempt" /\ req[p].retry = 0
           /\ req[p]'.stage = "refresh_conn" ) =>
             RefreshAge' > CIRCUIT_REFRESH_INTERVAL]_vars

\* C18 amended: a connection error on the first attempt always leads to a
\* circuit refresh, a pause and exactly one retry, whatever the time since
\* the last refresh; no call returns a connection error from its first
\* attempt, and a connection error on the retried attempt returns failure.
C18_ConnAlwaysRefresh ==
    /\ [](\A p \in Procs :
            (req[p].stage = "done" /\ req[p].cause = "conn") =>
                /\ ~req[p].ok
                /\ req[p].retry = 1
                /\ req[p].attempts = 2 /\ req[p].refreshes = 1)
    /\ [][\A p \in Procs :
            /\ ( req[p].stage = "refresh_conn" /\ req[p]' # req[p] ) =>
                  \/ req[p]'.stage = "idle"
                  \/ /\ req[p]'.stage = "pause"
                     /\ req[p]'.retry = 1 /\ req[p]'.refreshes = 1
                     /\ RefreshAge' = 0
            /\ ( req[p].stage = "pause" /\ req[p]' # req[p] ) =>
                  \/ req[p]'.stage = "idle"
                  \/ /\ req[p]'.stage = "attempt"
                     /\ req[p]'.retry = 1 /\ req[p]'.refreshes = 1]_vars

\* a connection error right after a refresh is being answered by another
\* refresh
C18_Witness ==
    /\ req["cmd"].stage = "refresh_conn"
    /\ RefreshAge <= ConnPause
    /\ cmd.results # <<>>

\* C19: a poll answered with HTTP 401 is a failed poll: the 401 ends the
\* call at once, with no retry and no circuit refresh inside
\* make_lnd_request, and the monitor tick that observes the failure
\* triggers no circuit refresh and no second poll either.
C19_NoRefreshOn401 ==
    /\ [][\A p \in Procs :
            (req[p].stage = "attempt" /\ req[p]'.cause = "401") =>
                /\ req[p]'.stage = "done" /\ ~req[p]'.ok
                /\ req[p]'.retry = req[p].retry
                /\ req[p]'.refreshes = req[p].refreshes]_vars
    /\ [][( /\ monPc = "poll"
            /\ req["mon"].stage = "done" /\ req["mon"].cause = "401" ) =>
              monPc' \notin {"second_refresh", "settle", "recheck"}]_vars

\* C20: a step of the command side (a handler or a request made for it)
\* writes no variable of the monitor: last_status, consecutive_failures and
\* offline_alert_sent keep their values, and last_successful_check and
\* last_circuit_refresh are not set anew (they only grow older).
C20_DisjointState ==
    [][(req["cmd"]' # req["cmd"] /\ monPc' = monPc /\ req["mon"]' = req["mon"]) =>
          /\ UNCHANGED statusVars
          /\ (now - last_successful_check)' >= now - last_successful_check
          /\ RefreshAge' >= RefreshAge]_vars

\* a poll was handled in this step
Polled == hist'.pollBit # hist.pollBit

\* C21: offline_alert_sent is set only while last_status is offline; it
\* becomes set only in the step that emits an OFFLINE notification; it is
\* cleared only by a successful poll, the one that emits BACK ONLINE and
\* leaves last_status online; and every successful poll that finds it set
\* clears it, so it is cleared once per recovery.
C21_FlagFollowsStatus ==
    /\ [](offline_alert_sent => last_status = "False")
    /\ [][(~offline_alert_sent /\ offline_alert_sent') =>
            /\ Polled /\ ~hist'.pollOk
            /\ Count(hist'.notes, "OFFLINE") = 1
            /\ last_status' = "False"]_vars
    /\ [][(offline_alert_sent /\ ~offline_alert_sent') =>
            /\ Polled /\ hist'.pollOk
            /\ hist'.notes = <<"BACK">>
            /\ hist'.runBack = 1
            /\ last_status' = "True"]_vars
    /\ [][(offline_alert_sent /\ Polled /\ hist'.pollOk) =>
            ~offline_alert_sent']_vars

\* the flag has been set by an OFFLINE, cleared by the recovery, and set
\* again by the OFFLINE of the next run of failures
C21_Witness ==
    /\ offline_alert_sent /\ last_status = "False"
    /\ hist.notes = <<"OFFLINE">>
    /\ hist.offlineBefore /\ hist.prevAlert = "BACK"

\* C22: consecutive_failures is a natural number, the number of failed tick
\* polls since the last successful poll: a failed tick poll adds exactly 1,
\* a failed re-check leaves it as it is, a successful tick poll or re-check
\* makes it 0, and no other step changes it.
C22_FailureCount ==
    /\ [](consecutive_failures \in Nat /\ consecutive_failures = hist.failRun)
    /\ [][Polled =>
            consecutive_failures' =
              IF hist'.pollOk THEN 0
              ELSE IF hist'.pollKind = "tick" THEN consecutive_failures + 1
              ELSE consecutive_failures]_vars
    /\ [][~Polled => consecutive_failures' = consecutive_failures]_vars

\* the re-check of the 2nd failed tick failed as well: still 2 failures
C22_Witness ==
    /\ hist.pollKind = "recheck" /\ ~hist.pollOk
    /\ consecutive_failures = 2 /\ hist.prevFailRun = 2

\* C23 (as claimed): a successful extra re-check is handled as a successful
\* tick poll would be in the same state: last_status becomes online,
\* consecutive_failures 0, last_successful_check the time of the tick, the
\* alert flag is cleared, the notification of a successful tick poll (if
\* one is due) is emitted, and the next tick starts without the sleep.
C23_RecheckAsSuccess ==
    [][(monPc = "recheck" /\ Polled /\ hist'.pollOk) =>
          /\ last_status' = NextStatus(TRUE)
          /\ consecutive_failures' = 0
          /\ last_successful_check' = current_time
          /\ ~offline_alert_sent'
          /\ hist'.notes = SuccessNotes(last_status, offline_alert_sent)
          /\ monPc' = "tick"]_vars

\* C24 (as claimed): the refreshes that timeouts trigger respect the
\* cooldown under every interleaving of the requests of the two tasks: no
\* request passes the cooldown test while another request that passed it
\* has not yet stamped last_circuit_refresh, so two such refreshes are
\* never under way at once.
C24_CooldownRespected ==
    \A p, q \in Procs :
        (p # q /\ req[p].stage = "refresh_timeout") =>
            req[q].stage # "refresh_timeout"

\* C25 (as claimed): last_circuit_refresh never goes back in time.  The
\* step in which the monitor tick writes it (after the periodic refresh or
\* the refresh of the 2nd failure, RefreshWait after the refresh began) and
\* the step in which make_lnd_request writes it (after its reactive
\* refresh) store a time not earlier than the time stored before.
C25_RefreshStampMonotone ==
    /\ [][(monPc \in {"periodic", "second_refresh"}
           /\ monPc' \in {"poll", "settle"}) =>
            last_circuit_refresh' >=
              Shift(last_circuit_refresh, Remaining("mon", RefreshWait))]_vars
    /\ [][\A p \in Procs :
            (req[p].stage \in {"refresh_timeout", "refresh_conn"}
             /\ req[p]'.stage \in {"attempt", "pause"}) =>
              last_circuit_refresh' >=
                Shift(last_circuit_refresh, Remaining(p, RefreshWait))]_vars

\* C26: a notification that could not be delivered does not raise into the
\* tick and changes nothing of what the tick does: the tick goes on to its
\* sleep, and last_status, consecutive_failures and offline_alert_sent get
\* the values the poll and the notification handed over determine, the
\* delivery having no part in them.  So an OFFLINE that was not delivered
\* sets offline_alert_sent all the same and is the only OFFLINE of its run
\* of failures.
C26_DeliveryFailureContained ==
    /\ [][(Polled /\ hist'.notes # <<>>) =>
            /\ monPc' = "sleep"
            /\ last_status' = (IF hist'.pollOk THEN "True" ELSE "False")
            /\ consecutive_failures' =
                 (IF hist'.pollOk THEN 0
                  ELSE IF hist'.pollKind = "tick" THEN consecutive_failures + 1
                  ELSE consecutive_failures)
            /\ offline_alert_sent' = (Count(hist'.notes, "OFFLINE") > 0)]_vars
    /\ [](hist.lostOffline =>
            /\ offline_alert_sent /\ last_status = "False"
            /\ hist.runOffline = 1)
    /\ [](hist.runOffline <= 1)

\* the OFFLINE of the 3rd failed tick was not delivered, and the 4th failed
\* tick has sent nothing
C26_Witness ==
    /\ hist.lostOffline /\ offline_alert_sent
    /\ hist.failRun = MAX_RETRIES + 1
    /\ ~hist.pollOk /\ hist.notes = <<>>

====
